---- MODULE Spec2Model ----
(***************************************************************************)
(* Model of the tool repository of src/tool_repository/manager/            *)
(* tool_manager.py: class ToolManager keeps an in-memory catalog           *)
(* (generated_tools), a manifest file (generated_tools.json), two artifact *)
(* files per tool (tool_code/<name>.py, tool_description/<name>.txt) and a *)
(* Chroma collection (vectordb) that indexes the descriptions.             *)
(***************************************************************************)
EXTENDS Integers, Sequences, FiniteSets, TLC

\* ------------------------------------------------------------------ bounds
NumNames == 2
MaxK == 2
MaxCalls == 4
\* the longest list of names given to retrieve_tool_description / retrieve_tool_code
MaxLen == 2

NamePool == <<"greet", "t", "u", "v">>
DescPool == <<"descA", "descB">>

Min(a, b) == IF a < b THEN a ELSE b

Names == {NamePool[i] : i \in 1..Min(NumNames, Len(NamePool))}
\* The tools a caller may add under a name: info["code"], info["description"].
Infos == {[code |-> "codeA", description |-> "descA"],
          [code |-> "codeB", description |-> "descB"]}
Queries == {"say hello", "list files"}
Ks == 0..MaxK
\* The lists of names a caller may ask for, repeated names included, over two
\* names that may or may not be in the catalog.
LookupNames == {NamePool[1], NamePool[2]}
NameLists == UNION {[1..l -> LookupNames] : l \in 0..MaxLen}

\* ------------------------------------------------------------------ state
VARIABLES
  live,              \* a ToolManager object exists (construction succeeded)
  generated_tools,   \* self.generated_tools: name -> [code, description]
  tool_names,        \* the keys of self.generated_tools in the dict's order
  vectordb,          \* self.vectordb._collection, in insertion order
  vectordb_disk,     \* the collection as persisted under <repo>/vectordb
  autopersist,       \* the installed store writes through on every change
  manifest,          \* <repo>/generated_tools.json
  manifest_names,    \* the keys of generated_tools.json in the file's order
  tool_code,         \* <repo>/tool_code/<name>.py
  tool_description,  \* <repo>/tool_description/<name>.txt
  last,              \* the latest call and what the caller saw of it
  calls,             \* constructions, add_new_tool and delete_tool calls so far
  added,             \* per name, the entry given to an add_new_tool that returned,
                     \* until a later add_new_tool or delete_tool names it
  nodes              \* the ActionNode objects of the plan, by name

vars == <<live, generated_tools, tool_names, vectordb, vectordb_disk, autopersist,
          manifest, manifest_names, tool_code, tool_description, last, calls, added,
          nodes>>

disk == <<vectordb_disk, manifest, manifest_names, tool_code, tool_description>>

\* ------------------------------------------------------------------ values
NoTools == [n \in {} |-> [code |-> "", description |-> ""]]
NoFiles == [n \in {} |-> ""]
NoNodes == [n \in {} |-> [status |-> FALSE]]

Range(seq) == {seq[i] : i \in DOMAIN seq}

\* A manifest file is either parseable JSON holding a name -> entry map, or not.
Json(tools) == [valid |-> TRUE, tools |-> tools]
\* open(path, "w") leaves a zero-length file, which json.load rejects.
Truncated == [valid |-> FALSE, tools |-> NoTools]

Entry(code, description) == [code |-> code, description |-> description]

\* A dict assignment that keeps the value a present key already has.
PutKeep(d, k, v) == [n \in DOMAIN d \cup {k} |-> IF n \in DOMAIN d THEN d[n] ELSE v]

\* dict assignment d[k] = v and deletion del d[k]
Put(d, k, v) == [n \in DOMAIN d \cup {k} |-> IF n = k THEN v ELSE d[n]]
Del(d, k) == [n \in DOMAIN d \ {k} |-> d[n]]

\* The key order of a dict after d[k] = v (a new key goes last, a present key
\* keeps its place) and after del d[k].
PutKey(keys, k) == IF k \in {keys[i] : i \in DOMAIN keys} THEN keys ELSE Append(keys, k)
DelKey(keys, k) == SelectSeq(keys, LAMBDA n : n # k)

\* ------------------------------------------------------------------ collection
Ids(coll) == {coll[i].id : i \in DOMAIN coll}

CollectionCount(coll) == Len(coll)

IsNot(id, e) == e.id # id

\* A delete that evicts the oldest entry when the id is absent.
CollectionDeleteOrOldest(coll, id) ==
  IF id \in Ids(coll) \/ coll = <<>>
  THEN SelectSeq(coll, LAMBDA e : IsNot(id, e))
  ELSE Tail(coll)

\* collection.delete(ids=[id]): removes the entry, no error when it is absent
CollectionDelete(coll, id) == SelectSeq(coll, LAMBDA e : IsNot(id, e))

\* add_texts(texts=[text], ids=[id]): stores the embedded text under id
AddTexts(coll, id, text) ==
  IF id \in Ids(coll)
  THEN [i \in DOMAIN coll |-> IF coll[i].id = id THEN [id |-> id, text |-> text] ELSE coll[i]]
  ELSE Append(coll, [id |-> id, text |-> text])

\* What the persist directory holds after the live collection became coll
\* without a persist() call.
WriteThrough(coll) == IF autopersist THEN coll ELSE vectordb_disk

\* ------------------------------------------------------------------ calls
\* What the caller saw of a call.  again: the call before was the same operation
\* on the same name and ended the same way.
Call(op, name, outcome) ==
  [op |-> op, name |-> name, outcome |-> outcome,
   again |-> (last.op = op /\ last.name = name /\ last.outcome = outcome),
   embedded |-> FALSE, k |-> 0, result |-> <<>>, names |-> <<>>, exists |-> FALSE,
   dict |-> NoFiles]

NoEntry == Entry("", "")

Init ==
  /\ live = TRUE
  /\ generated_tools = NoTools
  /\ tool_names = <<>>
  /\ manifest_names = <<>>
  /\ vectordb = <<>>
  /\ vectordb_disk = <<>>
  /\ autopersist \in BOOLEAN
  /\ manifest = Json(NoTools)
  /\ tool_code = NoFiles
  /\ tool_description = NoFiles
  /\ last = [op |-> "__init__", name |-> "", outcome |-> "ok", again |-> FALSE,
             embedded |-> FALSE, k |-> 0, result |-> <<>>, names |-> <<>>,
             exists |-> FALSE, dict |-> NoFiles]
  /\ calls = 0
  /\ added = [n \in Names |-> NoEntry]
  /\ nodes = NoNodes


\* ------------------------------------------------------------------ __init__
\* The assertion compiled away.
SyncedUnchecked(coll, tools) == TRUE

\* The assertion of lines 72 and 157: as many vectors as catalog entries.
Synced(coll, tools) == CollectionCount(coll) = Cardinality(DOMAIN tools)

\* ToolManager(generated_tool_repo_dir): a process starts on what the disk holds.
\* json.load fails on a manifest that is not JSON; the collection is opened from
\* the persist directory, not rebuilt; the assertion then compares the two.
ToolManager_init ==
  /\ UNCHANGED nodes
  /\ calls < MaxCalls
  /\ calls' = calls + 1
  /\ UNCHANGED <<disk, autopersist, added>>
  /\ IF ~manifest.valid
     THEN /\ live' = FALSE
          /\ generated_tools' = NoTools
          /\ tool_names' = <<>>
          /\ vectordb' = <<>>
          /\ last' = Call("__init__", "", "JSONDecodeError")
     ELSE IF ~Synced(vectordb_disk, manifest.tools)
     THEN /\ live' = FALSE
          /\ generated_tools' = NoTools
          /\ tool_names' = <<>>
          /\ vectordb' = <<>>
          /\ last' = Call("__init__", "", "AssertionError")
     ELSE /\ live' = TRUE
          /\ generated_tools' = manifest.tools
          /\ tool_names' = manifest_names
          /\ vectordb' = vectordb_disk
          /\ last' = Call("__init__", "", "ok")

\* ------------------------------------------------------------------ add_new_tool
\* embed_ok: whether the embedding provider answers the add_texts call.
add_new_tool(info, embed_ok) ==
  LET program_name == info.task_name
      program_code == info.code
      program_description == info.description
      exists == program_name \in DOMAIN generated_tools
      removed == IF exists THEN CollectionDelete(vectordb, program_name) ELSE vectordb
      upserted == AddTexts(removed, program_name, program_description)
      entry == Entry(program_code, program_description)
      tools == Put(generated_tools, program_name, entry)
      call(outcome) == [Call("add_new_tool", program_name, outcome)
                          EXCEPT !.embedded = TRUE]
  IN
  /\ UNCHANGED nodes
  /\ live
  /\ calls < MaxCalls
  /\ calls' = calls + 1
  /\ UNCHANGED <<live, autopersist>>
  /\ IF ~embed_ok
     THEN \* add_texts raises after the old vector was removed (line 143)
          /\ vectordb' = removed
          /\ vectordb_disk' = WriteThrough(removed)
          /\ UNCHANGED <<generated_tools, tool_names, manifest, manifest_names,
                         tool_code, tool_description>>
          /\ last' = call("EmbeddingError")
          /\ added' = [added EXCEPT ![program_name] = NoEntry]
     ELSE IF ~Synced(upserted, tools)
     THEN \* the assertion of line 157 fails: both in-memory stores are already changed
          /\ vectordb' = upserted
          /\ vectordb_disk' = WriteThrough(upserted)
          /\ generated_tools' = tools
          /\ tool_names' = PutKey(tool_names, program_name)
          /\ UNCHANGED <<manifest, manifest_names, tool_code, tool_description>>
          /\ last' = call("AssertionError")
          /\ added' = [added EXCEPT ![program_name] = NoEntry]
     ELSE /\ vectordb' = upserted
          /\ generated_tools' = tools
          /\ tool_code' = Put(tool_code, program_name, program_code)
          /\ tool_description' = Put(tool_description, program_name, program_description)
          /\ tool_names' = PutKey(tool_names, program_name)
          /\ manifest' = Json(tools)
          /\ manifest_names' = PutKey(tool_names, program_name)
          /\ vectordb_disk' = upserted
          /\ last' = call("ok")
          /\ added' = [added EXCEPT ![program_name] = entry]

\* ------------------------------------------------------------------ delete_tool
\* The manifest opened for reading.
ManifestOpenModeRead == "r"

\* The mode of the first open() of the manifest in delete_tool (line 262).
ManifestOpenMode == "w"

Truncates(mode) == mode = "w"
Readable(mode) == mode = "r"

delete_tool(tool) ==
  LET removed == IF tool \in DOMAIN generated_tools
                 THEN CollectionDelete(vectordb, tool) ELSE vectordb
      opened == IF Truncates(ManifestOpenMode) THEN Truncated ELSE manifest
      opened_names == IF Truncates(ManifestOpenMode) THEN <<>> ELSE manifest_names
  IN
  /\ UNCHANGED nodes
  /\ live
  /\ calls < MaxCalls
  /\ calls' = calls + 1
  /\ UNCHANGED <<live, autopersist, generated_tools, tool_names>>
  /\ vectordb' = removed
  /\ vectordb_disk' = WriteThrough(removed)
  /\ added' = [added EXCEPT ![tool] = NoEntry]
  /\ IF ~Readable(ManifestOpenMode)
     THEN \* json.load on a handle opened for writing raises io.UnsupportedOperation
          /\ manifest' = opened
          /\ manifest_names' = opened_names
          /\ UNCHANGED <<tool_code, tool_description>>
          /\ last' = Call("delete_tool", tool, "UnsupportedOperation")
     ELSE IF ~opened.valid
     THEN /\ manifest' = opened
          /\ manifest_names' = opened_names
          /\ UNCHANGED <<tool_code, tool_description>>
          /\ last' = Call("delete_tool", tool, "JSONDecodeError")
     ELSE \* lines 264-286: rewrite the manifest without the tool, remove its files
          /\ manifest' = Json(Del(opened.tools, tool))
          /\ manifest_names' = DelKey(opened_names, tool)
          /\ tool_code' = Del(tool_code, tool)
          /\ tool_description' = Del(tool_description, tool)
          /\ last' = Call("delete_tool", tool, "ok")

\* ------------------------------------------------------------------ retrieve_tool_name
Index(pool, x) == CHOOSE i \in 1..Len(pool) : pool[i] = x

\* The similarity of a stored text to a query: higher is nearer.  The embedding
\* is opaque; this table gives "say hello" equidistant pairs of texts and
\* "list files" none.
Score(query, text) ==
  IF query = "say hello"
  THEN (Index(DescPool, text) + 1) \div 2
  ELSE Len(DescPool) + 1 - Index(DescPool, text)

\* The orders of the whole collection by score, highest first; entries of equal
\* score in any order.
Rankings(coll, query) ==
  {p \in [DOMAIN coll -> DOMAIN coll] :
     /\ \A i, j \in DOMAIN coll : i # j => p[i] # p[j]
     /\ \A i, j \in DOMAIN coll :
          i < j => Score(query, coll[p[i]].text) >= Score(query, coll[p[j]].text)}

\* similarity_search_with_score(query, k): the names of the k nearest entries
SimilaritySearch(coll, query, k) ==
  {[i \in 1..Min(k, Len(coll)) |-> coll[p[i]].id] : p \in Rankings(coll, query)}

\* k passed on as given.
ClampKOff(count, k) == k

\* line 197: k = min(self.vectordb._collection.count(), k)
ClampK(count, k) == Min(count, k)

retrieve_tool_name(query, k, embed_ok) ==
  LET kk == ClampK(CollectionCount(vectordb), k)
      call == [Call("retrieve_tool_name", "", "ok") EXCEPT !.k = k]
  IN
  /\ UNCHANGED nodes
  /\ live
  /\ UNCHANGED <<live, generated_tools, tool_names, vectordb, disk, autopersist, calls,
                 added>>
  /\ IF kk = 0
     THEN last' = call
     ELSE IF ~embed_ok
     THEN last' = [call EXCEPT !.outcome = "EmbeddingError", !.embedded = TRUE]
     ELSE \E names \in SimilaritySearch(vectordb, query, kk) :
            last' = [call EXCEPT !.embedded = TRUE, !.result = names]

\* ------------------------------------------------------------------ get_tool_code
\* A lookup that reads the other field of the entry.
ToolCodeWrongField(tools, tool_name) == tools[tool_name].description

\* self.generated_tools[tool_name]["code"]
ToolCode(tools, tool_name) == tools[tool_name].code

get_tool_code(tool_name) ==
  /\ UNCHANGED nodes
  /\ live
  /\ UNCHANGED <<live, generated_tools, tool_names, vectordb, disk, autopersist, calls,
                 added>>
  /\ IF tool_name \in DOMAIN generated_tools
     THEN last' = [Call("get_tool_code", tool_name, "ok")
                     EXCEPT !.result = <<ToolCode(generated_tools, tool_name)>>]
     ELSE last' = Call("get_tool_code", tool_name, "KeyError")

\* ------------------------------------------------------------------ specification
Next ==
  \/ ToolManager_init
  \/ \E n \in Names, i \in Infos, e \in BOOLEAN :
       add_new_tool([task_name |-> n, code |-> i.code, description |-> i.description], e)
  \/ \E n \in Names : delete_tool(n)
  \/ \E q \in Queries, k \in Ks, e \in BOOLEAN : retrieve_tool_name(q, k, e)
  \/ \E n \in Names : get_tool_code(n)

Spec == Init /\ [][Next]_vars

\* The runs in which the embedding provider answers every call.
NextProviderUp ==
  \/ ToolManager_init
  \/ \E n \in Names, i \in Infos :
       add_new_tool([task_name |-> n, code |-> i.code, description |-> i.description], TRUE)
  \/ \E n \in Names : delete_tool(n)
  \/ \E q \in Queries, k \in Ks : retrieve_tool_name(q, k, TRUE)
  \/ \E n \in Names : get_tool_code(n)

SpecProviderUp == Init /\ [][NextProviderUp]_vars

\* ------------------------------------------------------------------ lookups
\* A membership test that takes the name it finds out of the dict.
exist_tool_pop(tool) ==
  /\ UNCHANGED nodes
  /\ live
  /\ UNCHANGED <<live, vectordb, disk, autopersist, calls, added>>
  /\ generated_tools' = Del(generated_tools, tool)
  /\ tool_names' = DelKey(tool_names, tool)
  /\ last' = [Call("exist_tool", tool, "ok") EXCEPT !.exists = tool \in DOMAIN generated_tools]

\* exist_tool(tool): tool in self.tool_names, the keys of self.generated_tools
exist_tool(tool) ==
  /\ UNCHANGED nodes
  /\ live
  /\ UNCHANGED <<live, generated_tools, tool_names, vectordb, disk, autopersist, calls,
                 added>>
  /\ last' = [Call("exist_tool", tool, "ok") EXCEPT !.exists = tool \in DOMAIN generated_tools]

\* An append that drops a value the list already holds.
AppendOnce(list, value) ==
  IF value \in {list[i] : i \in DOMAIN list} THEN list ELSE Append(list, value)

\* tool_description.append(...) / tool_code.append(...)
AppendTo(list, value) == Append(list, value)

\* The loop of lines 226-228 and 246-248 over the names still to look up:
\* self.generated_tools[name] raises KeyError on an absent name and the list
\* built so far is dropped with the frame.  (The record of a list lookup does
\* not say whether the call before asked the same.)
RECURSIVE ForNameIn(_, _, _)
ForNameIn(tool_name, field, list) ==
  IF tool_name = <<>>
  THEN [outcome |-> "ok", result |-> list]
  ELSE IF Head(tool_name) \notin DOMAIN generated_tools
  THEN [outcome |-> "KeyError", result |-> <<>>]
  ELSE ForNameIn(Tail(tool_name), field,
                 AppendTo(list, generated_tools[Head(tool_name)][field]))

Retrieved(op, tool_name, field) ==
  LET loop == ForNameIn(tool_name, field, <<>>)
  IN
  /\ UNCHANGED nodes
  /\ live
  /\ UNCHANGED <<live, generated_tools, tool_names, vectordb, disk, autopersist, calls,
                 added>>
  /\ last' = [Call(op, "", loop.outcome) EXCEPT !.names = tool_name,
                                                 !.result = loop.result,
                                                 !.again = FALSE]

retrieve_tool_description(tool_name) ==
  Retrieved("retrieve_tool_description", tool_name, "description")

retrieve_tool_code(tool_name) ==
  Retrieved("retrieve_tool_code", tool_name, "code")

\* The runs of a caller that adds, deletes, restarts and looks tools up by name,
\* with the embedding provider answering every add.
NextLookups ==
  \/ ToolManager_init
  \/ \E n \in Names, i \in Infos :
       add_new_tool([task_name |-> n, code |-> i.code, description |-> i.description], TRUE)
  \/ \E n \in Names : delete_tool(n)
  \/ \E n \in Names : exist_tool(n)
  \/ \E n \in Names : get_tool_code(n)
  \/ \E l \in NameLists : retrieve_tool_description(l)
  \/ \E l \in NameLists : retrieve_tool_code(l)

SpecLookups == Init /\ [][NextLookups]_vars

\* ------------------------------------------------------------------ aggregate views
\* An entry's code with nothing after it.
FormattedBare(entry) == <<entry.code>>

\* f"{entry['code']}\n\n": a text is held as the list of its pieces, "" as <<>>
Formatted(entry) == <<entry.code, "\n\n">>

\* The loop of lines 80-82 over the items still to visit, in the dict's order.
RECURSIVE ProgramLoop(_, _)
ProgramLoop(items, text) ==
  IF items = <<>>
  THEN text
  ELSE ProgramLoop(Tail(items), text \o Formatted(generated_tools[Head(items)]))

\* ToolManager.program
program ==
  /\ UNCHANGED nodes
  /\ live
  /\ UNCHANGED <<live, generated_tools, tool_names, vectordb, disk, autopersist, calls,
                 added>>
  /\ last' = [Call("program", "", "ok") EXCEPT !.result = ProgramLoop(tool_names, <<>>)]

\* The loop of lines 97-99: descriptions.update({tool_name: entry["description"]})
RECURSIVE DescriptionsLoop(_, _)
DescriptionsLoop(items, found) ==
  IF items = <<>>
  THEN found
  ELSE DescriptionsLoop(Tail(items),
                        Put(found, Head(items), generated_tools[Head(items)].description))

\* ToolManager.descriptions
descriptions ==
  /\ UNCHANGED nodes
  /\ live
  /\ UNCHANGED <<live, generated_tools, tool_names, vectordb, disk, autopersist, calls,
                 added>>
  /\ last' = [Call("descriptions", "", "ok")
                EXCEPT !.dict = DescriptionsLoop(tool_names, NoFiles)]

\* The runs of a caller that adds, deletes, restarts and asks for the whole
\* program text.
NextProgram ==
  \/ ToolManager_init
  \/ \E n \in Names, i \in Infos, e \in BOOLEAN :
       add_new_tool([task_name |-> n, code |-> i.code, description |-> i.description], e)
  \/ \E n \in Names : delete_tool(n)
  \/ program

SpecProgram == Init /\ [][NextProgram]_vars

\* The runs of a caller that adds, deletes, restarts and reads the repository
\* in every way that is meant to change nothing; the embedding provider may
\* fail a query, and the list lookups are asked for two names at a time.
NextReads ==
  \/ ToolManager_init
  \/ \E n \in Names, i \in Infos :
       add_new_tool([task_name |-> n, code |-> i.code, description |-> i.description], TRUE)
  \/ \E n \in Names : delete_tool(n)
  \/ \E n \in Names : exist_tool(n)
  \/ \E q \in Queries, k \in Ks, e \in BOOLEAN : retrieve_tool_name(q, k, e)
  \/ \E n, m \in LookupNames : retrieve_tool_description(<<n, m>>)
  \/ \E n, m \in LookupNames : retrieve_tool_code(<<n, m>>)
  \/ program
  \/ descriptions

SpecReads == Init /\ [][NextReads]_vars

\* ------------------------------------------------------------------ command line
\* The tool files a user may name with --tool_path, and what f.read() gives.
ToolPaths == {"hello.py", "files.py", "plain.py"}

Read(tool_path) ==
  CASE tool_path = "hello.py" -> "codeA"
    [] tool_path = "files.py" -> "codeB"
    [] OTHER -> "codeC"

\* The quoted texts of the assignments `self._description = "..."` in a file
\* text, in the order they appear: codeB assigns twice, codeC never.
DescriptionAssignments(code) ==
  CASE code = "codeA" -> <<"descA">>
    [] code = "codeB" -> <<"descB", "descA">>
    [] OTHER -> <<>>

\* A search that falls back to a stock description.
SearchOrStock(code) ==
  IF DescriptionAssignments(code) = <<>>
  THEN <<"descA">>
  ELSE <<Head(DescriptionAssignments(code))>>

\* re.search(pattern, code): the first match, or None (here the empty list)
Search(code) ==
  IF DescriptionAssignments(code) = <<>>
  THEN <<>>
  ELSE <<Head(DescriptionAssignments(code))>>

\* print_error_and_exit(message): sys.exit(1) ends the process; nothing was
\* written, and what the live collection held unpersisted goes with it.
print_error_and_exit(tool_name) ==
  /\ UNCHANGED nodes
  /\ live' = FALSE
  /\ generated_tools' = NoTools
  /\ tool_names' = <<>>
  /\ vectordb' = <<>>
  /\ UNCHANGED <<disk, autopersist, calls, added>>
  /\ last' = Call("add_tool", tool_name, "SystemExit(1)")

\* add_tool(toolManager, tool_name, tool_path) of the command line
add_tool(tool_name, tool_path, embed_ok) ==
  LET code == Read(tool_path)
      match == Search(code)
  IN
  /\ live
  /\ IF match # <<>>
     THEN add_new_tool([task_name |-> tool_name, code |-> code,
                        description |-> match[1]], embed_ok)
     ELSE print_error_and_exit(tool_name)

\* The runs of the command line: a process is started on the repository and
\* adds a tool file or deletes a tool.
NextCommandLine ==
  \/ ToolManager_init
  \/ \E n \in Names, f \in ToolPaths, e \in BOOLEAN : add_tool(n, f, e)
  \/ \E n \in Names : delete_tool(n)

SpecCommandLine == Init /\ [][NextCommandLine]_vars

\* ------------------------------------------------------------------ ActionNode
\* The steps of a plan, the types of a step and the values a step may return.
NodeNames == {"step1", "step2"}
NodeTypes == {"Code", "QA"}
ReturnVals == {"out1", "out2"}

\* A node born executed.
ActionNodeDone(name, description, node_type) ==
  [name |-> name, description |-> description, return_val |-> "",
   relevant_code |-> {}, next_action |-> {}, status |-> TRUE, type |-> node_type]

\* ActionNode.__init__(name, description, node_type), lines 16-31; the two
\* dicts are held as their sets of keys.
ActionNode(name, description, node_type) ==
  [name |-> name, description |-> description, return_val |-> "",
   relevant_code |-> {}, next_action |-> {}, status |-> FALSE, type |-> node_type]

\* The repository is not touched by the plan.
NodeStep(op, name) ==
  /\ UNCHANGED <<live, generated_tools, tool_names, vectordb, disk, autopersist, calls,
                 added>>
  /\ last' = Call(op, name, "ok")

ActionNode_init(name, description, node_type) ==
  /\ name \notin DOMAIN nodes
  /\ nodes' = Put(nodes, name, ActionNode(name, description, node_type))
  /\ NodeStep("ActionNode", name)

\* record_result(value): return_val = value and status = true, as often as called
record_result(name, value) ==
  /\ name \in DOMAIN nodes
  /\ nodes' = [nodes EXCEPT ![name].return_val = value, ![name].status = TRUE]
  /\ NodeStep("record_result", name)

\* link_next(key, node): one more entry of next_action
link_next(name, key) ==
  /\ name \in DOMAIN nodes
  /\ key \in DOMAIN nodes
  /\ nodes' = [nodes EXCEPT ![name].next_action = @ \cup {key}]
  /\ NodeStep("link_next", name)

\* The runs of an agent that builds a plan and records the results of its steps.
NextActionNode ==
  \/ \E n \in NodeNames, d \in Range(DescPool), t \in NodeTypes : ActionNode_init(n, d, t)
  \/ \E n \in NodeNames, v \in ReturnVals : record_result(n, v)
  \/ \E n \in NodeNames, k \in NodeNames : link_next(n, k)

SpecActionNode == Init /\ [][NextActionNode]_vars

\* ------------------------------------------------------------------ interruptions
\* The process dies: the object and the live collection are gone, the disk stays.
Crashed(op, name) ==
  /\ UNCHANGED nodes
  /\ live' = FALSE
  /\ generated_tools' = NoTools
  /\ tool_names' = <<>>
  /\ vectordb' = <<>>
  /\ last' = Call(op, name, "crash")
  /\ added' = [added EXCEPT ![name] = NoEntry]

\* The lines of add_new_tool after which the process may die with the disk in a
\* new state: 143 the old vector removed, 150 the new vector stored, 162 the
\* code file written, 165 the description file written, 167 the manifest opened
\* for writing, 168 the manifest dumped (persist() of line 169 not yet called).
AddCrashPoints == {143, 150, 162, 165, 167, 168}

add_new_tool_crash(info, point) ==
  LET program_name == info.task_name
      exists == program_name \in DOMAIN generated_tools
      removed == IF exists THEN CollectionDelete(vectordb, program_name) ELSE vectordb
      upserted == AddTexts(removed, program_name, info.description)
      tools == Put(generated_tools, program_name, Entry(info.code, info.description))
      code_file == Put(tool_code, program_name, info.code)
      description_file == Put(tool_description, program_name, info.description)
  IN
  /\ live
  /\ calls < MaxCalls
  /\ calls' = calls + 1
  /\ UNCHANGED autopersist
  /\ point = 143 => exists
  /\ point >= 162 => Synced(upserted, tools)
  /\ vectordb_disk' = WriteThrough(IF point = 143 THEN removed ELSE upserted)
  /\ tool_code' = IF point >= 162 THEN code_file ELSE tool_code
  /\ tool_description' = IF point >= 165 THEN description_file ELSE tool_description
  /\ manifest' = IF point = 167 THEN Truncated
                 ELSE IF point = 168 THEN Json(tools) ELSE manifest
  /\ manifest_names' = IF point = 167 THEN <<>>
                       ELSE IF point = 168 THEN PutKey(tool_names, program_name)
                       ELSE manifest_names
  /\ Crashed("add_new_tool", program_name)

\* The lines of delete_tool after which the process may die: 258 the vector
\* removed, 262 the manifest opened for writing.
DeleteCrashPoints == {258, 262}

delete_tool_crash(tool, point) ==
  LET removed == IF tool \in DOMAIN generated_tools
                 THEN CollectionDelete(vectordb, tool) ELSE vectordb
  IN
  /\ live
  /\ calls < MaxCalls
  /\ calls' = calls + 1
  /\ UNCHANGED <<autopersist, tool_code, tool_description>>
  /\ vectordb_disk' = WriteThrough(removed)
  /\ manifest' = IF point = 262 /\ Truncates(ManifestOpenMode) THEN Truncated ELSE manifest
  /\ manifest_names' = IF point = 262 /\ Truncates(ManifestOpenMode) THEN <<>>
                       ELSE manifest_names
  /\ Crashed("delete_tool", tool)

\* The open() calls of add_new_tool that may raise OSError: 161 the code file,
\* 164 the description file, 167 the manifest.  The index and the in-memory
\* catalog are already changed and the assertion has passed; nothing catches
\* the error and the object lives on.
AddWritePoints == {161, 164, 167}

add_new_tool_oserror(info, point) ==
  LET program_name == info.task_name
      exists == program_name \in DOMAIN generated_tools
      removed == IF exists THEN CollectionDelete(vectordb, program_name) ELSE vectordb
      upserted == AddTexts(removed, program_name, info.description)
      tools == Put(generated_tools, program_name, Entry(info.code, info.description))
  IN
  /\ UNCHANGED nodes
  /\ live
  /\ calls < MaxCalls
  /\ calls' = calls + 1
  /\ UNCHANGED <<live, autopersist, manifest, manifest_names>>
  /\ Synced(upserted, tools)
  /\ vectordb' = upserted
  /\ vectordb_disk' = WriteThrough(upserted)
  /\ generated_tools' = tools
  /\ tool_names' = PutKey(tool_names, program_name)
  /\ tool_code' = IF point >= 164 THEN Put(tool_code, program_name, info.code)
                  ELSE tool_code
  /\ tool_description' = IF point >= 167
                         THEN Put(tool_description, program_name, info.description)
                         ELSE tool_description
  /\ last' = [Call("add_new_tool", program_name, "OSError") EXCEPT !.embedded = TRUE]
  /\ added' = [added EXCEPT ![program_name] = NoEntry]

\* The runs in which the process may also die inside a call and a file may
\* fail to open.
NextFaults ==
  \/ ToolManager_init
  \/ \E n \in Names, i \in Infos, e \in BOOLEAN :
       add_new_tool([task_name |-> n, code |-> i.code, description |-> i.description], e)
  \/ \E n \in Names : delete_tool(n)
  \/ \E n \in Names, i \in Infos, p \in AddCrashPoints :
       add_new_tool_crash([task_name |-> n, code |-> i.code, description |-> i.description], p)
  \/ \E n \in Names, p \in DeleteCrashPoints : delete_tool_crash(n, p)
  \/ \E n \in Names, i \in Infos, p \in AddWritePoints :
       add_new_tool_oserror([task_name |-> n, code |-> i.code, description |-> i.description], p)

SpecFaults == Init /\ [][NextFaults]_vars

\* ------------------------------------------------------------------ properties
Info(n, i) == [task_name |-> n, code |-> i.code, description |-> i.description]


\* What a caller or the next process can observe of the repository.
Observable == <<vectordb, vectordb_disk, generated_tools, tool_names, manifest,
                manifest_names, tool_code, tool_description>>

\* C1: after every add_new_tool or delete_tool call, returned or failed, the
\* index holds as many vectors as the catalog holds tool names.
C1_CountsAgree ==
  live => CollectionCount(vectordb) = Cardinality(DOMAIN generated_tools)

\* C2: in every reachable state the names in the catalog are exactly the ids in
\* the index.
C2_NameSetsAgree ==
  live => Ids(vectordb) = DOMAIN generated_tools

\* C3: an add_new_tool of a name right after an add_new_tool of the same name
\* that returned leaves one index entry and one catalog entry of that name,
\* holding the second call's code and description and nothing of the first's,
\* and the index count is the same before and after the second call.
C3_UpsertReplaces ==
  [][\A n \in Names, i \in Infos :
       (/\ last.op = "add_new_tool" /\ last.name = n /\ last.outcome = "ok"
        /\ add_new_tool(Info(n, i), TRUE))
       => /\ last'.outcome = "ok"
          /\ Cardinality({j \in DOMAIN vectordb' : vectordb'[j].id = n}) = 1
          /\ \A j \in DOMAIN vectordb' :
               vectordb'[j].id = n => vectordb'[j].text = i.description
          /\ n \in DOMAIN generated_tools'
          /\ generated_tools'[n] = Entry(i.code, i.description)
          /\ manifest' = Json(generated_tools')
          /\ tool_code'[n] = i.code
          /\ tool_description'[n] = i.description
          /\ CollectionCount(vectordb') = CollectionCount(vectordb)]_vars

\* A second add_new_tool of the same name in a row has returned.
C3_Witness ==
  /\ last.op = "add_new_tool" /\ last.outcome = "ok" /\ last.again
  /\ last.name \in Ids(vectordb)

\* C4: a delete_tool of a name right after a delete_tool of the same name leaves
\* the index, the in-memory catalog, the manifest and the artifact files as the
\* first call left them, and ends as the first call ended.
C4_DeleteTwiceAsOnce ==
  [][\A x \in Names :
       (last.op = "delete_tool" /\ last.name = x /\ delete_tool(x))
       => (Observable' = Observable /\ last'.outcome = last.outcome)]_vars

\* delete_tool was called twice in a row on a tool the catalog held, with
\* another tool in the index.
C4_Witness ==
  /\ last.op = "delete_tool" /\ last.again
  /\ last.name \in DOMAIN generated_tools
  /\ vectordb # <<>>

\* C5: delete_tool of a name that is in neither store returns normally and
\* changes nothing.
C5_DeleteUnknownNoEffect ==
  [][\A x \in Names :
       (/\ x \notin DOMAIN generated_tools /\ x \notin Ids(vectordb)
        /\ manifest.valid /\ x \notin DOMAIN manifest.tools
        /\ delete_tool(x))
       => (last'.outcome = "ok" /\ Observable' = Observable)]_vars

\* C6: delete_tool reads the manifest before writing it: afterwards the manifest
\* holds the entries it held before except the deleted one, and the other
\* tools' artifact files are as they were.
C6_ReadModifyWrite ==
  [][\A x \in Names :
       (manifest.valid /\ delete_tool(x))
       => /\ manifest' = Json(Del(manifest.tools, x))
          /\ \A y \in DOMAIN tool_code \ {x} :
               y \in DOMAIN tool_code' /\ tool_code'[y] = tool_code[y]
          /\ \A y \in DOMAIN tool_description \ {x} :
               y \in DOMAIN tool_description' /\ tool_description'[y] = tool_description[y]]_vars

\* C7: once add_new_tool of a name has returned, and until a later add_new_tool
\* or delete_tool names it, the catalog holds exactly the code and description
\* given, and get_tool_code returns that code.
C7_RoundTrip ==
  \A t \in Names :
    (live /\ added[t] # NoEntry)
    => /\ t \in DOMAIN generated_tools
       /\ generated_tools[t] = added[t]
       /\ (last.op = "get_tool_code" /\ last.name = t)
          => (last.outcome = "ok" /\ last.result = <<added[t].code>>)

\* A tool was looked up after it was added and another tool was added too.
C7_Witness ==
  /\ last.op = "get_tool_code" /\ last.outcome = "ok"
  /\ added[last.name] # NoEntry
  /\ \E u \in Names \ {last.name} : added[u] # NoEntry

\* C8: retrieve_tool_name returns at most min(k, count) names, and on an empty
\* index it returns the empty list for every k, without asking the embedding
\* provider and without raising.
C8_RetrievalBound ==
  last.op = "retrieve_tool_name"
  => /\ Len(last.result) <= Min(last.k, CollectionCount(vectordb))
     /\ CollectionCount(vectordb) = 0
        => (last.result = <<>> /\ ~last.embedded /\ last.outcome = "ok")

\* A retrieval asked for more names than the index holds and got them all.
C8_Witness ==
  /\ last.op = "retrieve_tool_name"
  /\ CollectionCount(vectordb) > 0
  /\ last.k > CollectionCount(vectordb)
  /\ Len(last.result) = CollectionCount(vectordb)

\* C9: delete_tool of an indexed tool returns normally and takes the name out
\* of the index; retrieve_tool_name returns only names the index holds; and a
\* name enters the index only by an add_new_tool of it.  So after add, retrieve,
\* delete the next retrieval is empty, and a retrieval after delete_tool(x) does
\* not return x until x is added again.
C9_DeletedNotRetrieved ==
  [][/\ \A x \in Names :
          (x \in Ids(vectordb) /\ delete_tool(x))
          => (last'.outcome = "ok" /\ x \notin Ids(vectordb'))
     /\ last'.op = "retrieve_tool_name" => Range(last'.result) \subseteq Ids(vectordb')
     /\ \A x \in Names :
          (x \notin Ids(vectordb) /\ x \in Ids(vectordb'))
          => (last'.op = "add_new_tool" /\ last'.name = x)]_vars

\* C10: construction succeeds only when the manifest parses and the persisted
\* index holds as many vectors as the manifest holds entries; on a mismatch it
\* fails with the assertion error; and it never changes the persisted index,
\* the manifest or an artifact file.
C10_ConstructionChecks ==
  [][ToolManager_init
     => /\ live' => (/\ manifest.valid
                     /\ CollectionCount(vectordb_disk) = Cardinality(DOMAIN manifest.tools))
        /\ (/\ manifest.valid
            /\ CollectionCount(vectordb_disk) # Cardinality(DOMAIN manifest.tools))
           => (~live' /\ last'.outcome = "AssertionError")
        /\ UNCHANGED disk]_vars

\* A construction met a persisted index and a manifest of different sizes.
C10_Witness ==
  /\ last.op = "__init__" /\ last.outcome = "AssertionError"
  /\ manifest.valid
  /\ CollectionCount(vectordb_disk) # Cardinality(DOMAIN manifest.tools)

\* Every tool the manifest names has both artifact files and no other tool has one.
NoPartialTool(m, code_files, description_files) ==
  /\ DOMAIN m.tools \subseteq (DOMAIN code_files \cap DOMAIN description_files)
  /\ (DOMAIN code_files \cup DOMAIN description_files) \subseteq DOMAIN m.tools

\* C11: when the process dies inside add_new_tool on a repository whose
\* manifest and artifact files agree, the disk afterwards still has a code
\* file and a description file for every tool the manifest names, and no
\* artifact file for a tool the manifest does not name.
C11_CrashLeavesNoPartialTool ==
  [][\A n \in Names, i \in Infos, p \in AddCrashPoints :
       (/\ manifest.valid
        /\ NoPartialTool(manifest, tool_code, tool_description)
        /\ add_new_tool_crash(Info(n, i), p))
       => NoPartialTool(manifest', tool_code', tool_description')]_vars

\* The persisted index holds exactly the names of the catalog, each with the
\* description the catalog has for it.
IndexMatchesCatalog(coll, tools) ==
  /\ Ids(coll) = DOMAIN tools
  /\ \A i \in DOMAIN coll : coll[i].text = tools[coll[i].id].description

\* C12: when the process died inside add_new_tool or delete_tool and left the
\* persisted index different from the manifest (a vector removed, added or
\* replaced whose catalog entry was not yet written), the next construction
\* fails its assertion and no ToolManager comes to life.
C12_CrashDivergenceDetected ==
  [][(/\ last.outcome = "crash"
      /\ manifest.valid
      /\ ~IndexMatchesCatalog(vectordb_disk, manifest.tools)
      /\ ToolManager_init)
     => (~live' /\ last'.outcome = "AssertionError")]_vars

\* C13: an add_new_tool whose embedding call fails, for a new name or for a
\* name already present, ends with an error and leaves the index, the
\* in-memory catalog, the manifest and the artifact files as they were, and
\* the ToolManager alive.
C13_EmbeddingFailureChangesNothing ==
  [][\A n \in Names, i \in Infos :
       add_new_tool(Info(n, i), FALSE)
       => (/\ last'.outcome = "EmbeddingError"
           /\ Observable' = Observable
           /\ live')]_vars

\* C14: add_new_tool takes effect in this order: the old vector is removed (when
\* replacing) and the new one stored before the catalog is touched; the new
\* vector is on disk before the manifest file is rewritten; and the assertion
\* is made only after the index and the catalog (manifest and artifact files)
\* are both updated.  Seen at every point where the call can stop: an
\* embedding failure or an early crash leaves the catalog untouched, a crash
\* that reached the manifest leaves the new vector persisted, and a failed
\* assertion leaves the manifest and the files already written.
C14_OrderOfEffects ==
  [][\A n \in Names, i \in Infos :
       /\ add_new_tool(Info(n, i), FALSE)
          => UNCHANGED <<generated_tools, manifest, tool_code, tool_description>>
       /\ \A p \in AddCrashPoints :
            add_new_tool_crash(Info(n, i), p)
            => /\ p <= 150 => UNCHANGED <<manifest, tool_code, tool_description>>
               /\ manifest' # manifest
                  => [id |-> n, text |-> i.description] \in Range(vectordb_disk')
       /\ (add_new_tool(Info(n, i), TRUE) /\ last'.outcome = "AssertionError")
          => /\ [id |-> n, text |-> i.description] \in Range(vectordb')
             /\ generated_tools'[n] = Entry(i.code, i.description)
             /\ manifest' = Json(generated_tools')
             /\ n \in DOMAIN tool_code' /\ tool_code'[n] = i.code
             /\ n \in DOMAIN tool_description' /\ tool_description'[n] = i.description
     ]_vars

\* C15: when an artifact file or the manifest cannot be written inside
\* add_new_tool after the new vector was stored, the caller sees the error of
\* a violated invariant (the one the assertions raise), and no live
\* ToolManager is left whose index holds a name the manifest lacks.
C15_WriteFailureIsInvariantViolation ==
  [][\A n \in Names, i \in Infos, p \in AddWritePoints :
       add_new_tool_oserror(Info(n, i), p)
       => (/\ last'.outcome = "AssertionError"
           /\ live' => Ids(vectordb') \subseteq DOMAIN manifest'.tools)]_vars

\* What a list lookup of the field must give for the names asked: every name
\* present, the field of each in the order asked; otherwise KeyError and no list.
LookedUp(tool_name, field, call) ==
  IF \A j \in DOMAIN tool_name : tool_name[j] \in DOMAIN generated_tools
  THEN /\ call.outcome = "ok"
       /\ Len(call.result) = Len(tool_name)
       /\ \A j \in DOMAIN tool_name : call.result[j] = generated_tools[tool_name[j]][field]
  ELSE /\ call.outcome = "KeyError"
       /\ call.result = <<>>

\* C16: retrieve_tool_description and retrieve_tool_code give one result for
\* each name asked, in the order asked, a repeated name repeated, when every
\* name is in the catalog; when a name is absent the call fails with KeyError,
\* gives no partial list, and leaves the repository as it was.
C16_ListLookups ==
  [][/\ last'.op = "retrieve_tool_description"
        => (LookedUp(last'.names, "description", last') /\ UNCHANGED <<Observable, live>>)
     /\ last'.op = "retrieve_tool_code"
        => (LookedUp(last'.names, "code", last') /\ UNCHANGED <<Observable, live>>)]_vars

\* A lookup of a present name followed by an absent one failed.
C16_Witness ==
  /\ last.op \in {"retrieve_tool_description", "retrieve_tool_code"}
  /\ Len(last.names) = 2
  /\ last.names[1] \in DOMAIN generated_tools
  /\ last.names[2] \notin DOMAIN generated_tools
  /\ last.outcome = "KeyError"
  /\ last.result = <<>>

\* C18: when the tool file given to the command line's add has no description
\* assignment, the process ends with exit code 1, ToolManager.add_new_tool is
\* not called, and the index, the manifest and the artifact files on disk are
\* as before.
C18_NoMarkerExits ==
  [][\A n \in Names, f \in ToolPaths, e \in BOOLEAN :
       (DescriptionAssignments(Read(f)) = <<>> /\ add_tool(n, f, e))
       => (/\ last'.op = "add_tool"
           /\ last'.outcome = "SystemExit(1)"
           /\ ~live'
           /\ UNCHANGED disk)]_vars

\* The command line refused a file on a repository that holds a tool.
C18_Witness ==
  /\ last.op = "add_tool" /\ last.outcome = "SystemExit(1)"
  /\ ~live
  /\ manifest.valid /\ DOMAIN manifest.tools # {}
  /\ vectordb_disk # <<>>

\* C19: an ActionNode is created with status false and an empty return_val;
\* its status turns true only when a result is recorded for it; a result may
\* be recorded again and replaces the earlier one without an error; and a
\* status that is true stays true under every operation.
C19_NodeStatus ==
  [][\A n \in NodeNames :
       /\ (n \notin DOMAIN nodes /\ n \in DOMAIN nodes')
          => (~nodes'[n].status /\ nodes'[n].return_val = "")
       /\ n \in DOMAIN nodes
          => /\ n \in DOMAIN nodes'
             /\ nodes[n].status => nodes'[n].status
             /\ (~nodes[n].status /\ nodes'[n].status)
                => (last'.op = "record_result" /\ last'.name = n)
             /\ \A v \in ReturnVals :
                  record_result(n, v)
                  => (/\ last'.outcome = "ok"
                      /\ nodes'[n].status
                      /\ nodes'[n].return_val = v)]_vars

\* A result was recorded twice in a row for one node, which has another
\* node linked after it.
C19_Witness ==
  /\ last.op = "record_result" /\ last.again
  /\ nodes[last.name].status
  /\ nodes[last.name].return_val = "out2"
  /\ nodes[last.name].next_action # {}

\* C20: right after a delete_tool(x), exist_tool(x) answers False and
\* get_tool_code(x) fails with KeyError: the in-memory catalog no longer
\* holds x.
C20_DeletedIsGone ==
  [][\A x \in Names :
       (last.op = "delete_tool" /\ last.name = x)
       => /\ exist_tool(x) => ~last'.exists
          /\ get_tool_code(x) => last'.outcome = "KeyError"]_vars

\* C21: after every add_new_tool or delete_tool call that returns normally,
\* generated_tools.json holds the same name -> {code, description} mapping as
\* self.generated_tools, and a ToolManager constructed next on the same
\* directory comes to life with that same catalog.
C21_ManifestIsCatalog ==
  [][/\ (last'.op \in {"add_new_tool", "delete_tool"} /\ last'.outcome = "ok")
        => manifest' = Json(generated_tools')
     /\ (/\ last.op \in {"add_new_tool", "delete_tool"}
         /\ last.outcome = "ok"
         /\ ToolManager_init)
        => (live' /\ generated_tools' = generated_tools)]_vars

\* A ToolManager was constructed right after an add_new_tool that returned,
\* on a catalog of two tools.
C21_Witness ==
  /\ last.op = "__init__" /\ last.outcome = "ok" /\ live
  /\ calls >= 3
  /\ \A t \in Names : added[t] # NoEntry /\ generated_tools[t] = added[t]
  /\ manifest = Json(generated_tools)

\* The operations that only read.
ReadOps == {"exist_tool", "retrieve_tool_name", "retrieve_tool_description",
            "retrieve_tool_code", "program", "descriptions"}

\* C22: exist_tool, retrieve_tool_name, retrieve_tool_description,
\* retrieve_tool_code, program and descriptions leave the index, the in-memory
\* catalog, the manifest and the artifact files as they were, and the
\* ToolManager alive, whether they return a value or raise.
C22_ReadsChangeNothing ==
  [][last'.op \in ReadOps => UNCHANGED <<Observable, live>>]_vars

\* A query failed at the embedding provider on a repository that holds a tool.
C22_Witness ==
  /\ last.op = "retrieve_tool_name" /\ last.outcome = "EmbeddingError"
  /\ live
  /\ vectordb # <<>>
  /\ tool_names # <<>>
  /\ manifest = Json(generated_tools)

\* C23: program gives, for the tools of the catalog in the dict's order, the
\* code of each followed by a blank line, every tool once and nothing else;
\* on an empty catalog it gives the empty text.
C23_ProgramText ==
  last.op = "program"
  => /\ last.outcome = "ok"
     /\ Len(tool_names) = Cardinality(DOMAIN generated_tools)
     /\ Range(tool_names) = DOMAIN generated_tools
     /\ Len(last.result) = 2 * Len(tool_names)
     /\ \A i \in DOMAIN tool_names :
          /\ last.result[2 * i - 1] = generated_tools[tool_names[i]].code
          /\ last.result[2 * i] = "\n\n"
     /\ generated_tools = NoTools => last.result = <<>>

\* The program text of two tools with different code, the one added first
\* replaced since and still first.
C23_Witness ==
  /\ last.op = "program"
  /\ Len(tool_names) = 2
  /\ last.result = <<"codeB", "\n\n", "codeA", "\n\n">>
  /\ vectordb # <<>> /\ vectordb[1].id = tool_names[2]
====
